---------------------------- MODULE Spec2Model ----------------------------
(***************************************************************************)
(* Monte Carlo Tree Search bot (mcts_vanilla.py / mcts_modified.py).       *)
(*                                                                         *)
(* think() is modelled as a sequential process: pc is the position in      *)
(* think's loop, the tree is a function from node identities to the        *)
(* fields of MCTSNode.  A node is identified by the sequence of actions    *)
(* leading to it from the root (the root is <<>>), so node.parent is the   *)
(* sequence without its last action and node.parent == None is node = <<>>.*)
(*                                                                         *)
(* The game (p2_t3.Board) is outside the sources; the engine only uses its *)
(* contract.  The model plays a small synthetic game obeying that contract:*)
(* NumCells cells in a row, box b is the pair of cells {2b-1, 2b}; the     *)
(* player to move claims a free cell; a player owning both cells of a box  *)
(* owns the box and wins; a player claiming the mine cell (if the board    *)
(* has one) loses; a full board is a draw.                                 *)
(***************************************************************************)
EXTENDS Integers, Sequences, FiniteSets, TLC

VARIABLES
    board,            \* think's board: the game setup [mine, desc]
    current_state,    \* think's current_state: the input state, never changed
    policy,           \* "random": mcts_vanilla.rollout, "heuristic": mcts_modified.rollout
    num_nodes,        \* the iteration budget
    bot_identity,     \* think's bot_identity
    tree,             \* the MCTSNode objects reachable from root_node
    iter,             \* number of completed iterations of think's for loop
    pc,               \* position in think
    node,             \* think's node (traverse_nodes' starter)
    state,            \* think's state (the state argument of expand_leaf and rollout)
    current_game,     \* local current_game of traverse_nodes / rollout
    current_identity, \* local current_identity of traverse_nodes
    move_chosen,      \* local move_chosen of rollout (last move played)
    val,              \* get_best_action's val, as the fraction wins/visits
    visit,            \* get_best_action's visit
    chosen_move,      \* get_best_action's chosen_move
    scanned,          \* number of root children already scanned by get_best_action
    best_action,      \* think's best_action (the returned action)
    error             \* the exception that ended think, "none" if none

vars == <<board, current_state, policy, num_nodes, bot_identity, tree, iter, pc,
          node, state, current_game, current_identity, move_chosen, val, visit,
          chosen_move, scanned, best_action, error>>

---------------------------------------------------------------------------
(* Bounds of the model *)

\* Largest iteration budget of the general specification
MaxNodes == 6

\* Number of cells of the synthetic board
NumCells == 4

\* Largest number of cells already claimed in an input state
MaxClaimed == 2

\* Largest iteration budget of the one-ply specification (budgets are 50..MaxOnePlyNodes)
MaxOnePlyNodes == 56

\* get_best_action alone: largest number of root children, and largest
\* visits of a drawn child
MaxSelChildren == 3

MaxSelVisits == 3

---------------------------------------------------------------------------
(* Program constants *)

\* Python's None, for an action (actions are cell numbers 1..NumCells)
None == 0

\* explore_faction = 2
explore_faction == 2

\* val = -1000000000 / uct_val = -1000000000
MinusInfinity == -1000000000

\* log(n) / log(2.71828) for n = 1..64, in units of 1e-8, rounded down
LnE8 ==
    <<0, 69314764, 109861302, 138629529, 160943899, 179176067,
      194591145, 207944294, 219722605, 230258664, 239789688, 248490832,
      256495108, 263905910, 270805202, 277259058, 283321524, 289037370,
      294444095, 299573428, 304452448, 309104453, 313549632, 317805596,
      321887799, 325809872, 329583908, 333220675, 336729809, 340119966,
      343398951, 346573823, 349650991, 352636289, 355535045, 358352134,
      361092034, 363758860, 366356411, 368888193, 371357456, 373767213,
      376120264, 378419217, 380666505, 382864397, 385015019, 387120361,
      389182291, 391202563, 393182827, 395124637, 397029458, 398898672,
      400733588, 402535439, 404305398, 406044574, 407754018, 409434731,
      411087662, 412713716, 414313751, 415888588>>

\* The next four decimals of log(n) / log(2.71828), in units of 1e-12
LnE12 ==
    <<0, 6807, 7653, 3615, 5027, 4460,
      7977, 422, 5306, 1835, 5750, 1268,
      2782, 4785, 2680, 7230, 9826, 2113,
      9752, 8642, 5631, 2557, 5029, 8075,
      55, 9590, 2959, 1593, 5008, 9488,
      4367, 4037, 3403, 6633, 3005, 8921,
      1539, 6560, 436, 5450, 4650, 2438,
      5676, 9365, 333, 1836, 1524, 4883,
      5955, 6862, 7479, 6398, 4181, 9767,
      777, 8400, 7405, 1816, 6674, 6295,
      9365, 1175, 3284, 845>>

---------------------------------------------------------------------------
(* The game model: the contract of p2_t3.Board on the synthetic game *)

Cells == 1..NumCells

NumBoxes == NumCells \div 2

Other(p) == IF p = 1 THEN 2 ELSE 1

\* Board.current_player(state)
current_player(s) == s.turn

\* Board.owned_boxes(state): box -> owner, 0 when nobody owns it
owned_boxes(s) ==
    [b \in 1..NumBoxes |->
        IF s.cells[2*b - 1] # 0 /\ s.cells[2*b - 1] = s.cells[2*b]
        THEN s.cells[2*b - 1] ELSE 0]

\* Board.is_ended(state)
is_ended(b, s) ==
    \/ \E x \in 1..NumBoxes : owned_boxes(s)[x] # 0
    \/ b.mine # 0 /\ s.cells[b.mine] # 0
    \/ \A c \in Cells : s.cells[c] # 0

\* Board.legal_actions(state): the free cells in the board's order, no
\* duplicates, empty exactly on ended states
legal_actions(b, s) ==
    IF is_ended(b, s) THEN <<>>
    ELSE SelectSeq([i \in Cells |-> IF b.desc THEN NumCells + 1 - i ELSE i],
                   LAMBDA c : s.cells[c] = 0)

\* Board.next_state(state, action): a new state value
next_state(s, a) ==
    [cells |-> [s.cells EXCEPT ![a] = s.turn], turn |-> Other(s.turn)]

\* The winner of an ended state, 0 for a draw
Winner(b, s) ==
    IF b.mine # 0 /\ s.cells[b.mine] # 0 THEN Other(s.cells[b.mine])
    ELSE IF \E x \in 1..NumBoxes : owned_boxes(s)[x] # 0
         THEN owned_boxes(s)[CHOOSE x \in 1..NumBoxes : owned_boxes(s)[x] # 0]
         ELSE 0

\* Board.points_values(state): identity -> score on an ended state, the
\* empty mapping (Python's None) otherwise
points_values(b, s) ==
    IF ~is_ended(b, s) THEN <<>>
    ELSE [p \in 1..2 |-> IF Winner(b, s) = 0 THEN 0
                         ELSE IF Winner(b, s) = p THEN 1 ELSE -1]

---------------------------------------------------------------------------
(* MCTSNode *)

\* MCTSNode(parent, parent_action, action_list)
MCTSNode(parent_action, action_list) ==
    [parent_action   |-> parent_action,
     child_keys      |-> <<>>,          \* keys of child_nodes, in insertion order
     untried_actions |-> action_list,
     wins            |-> 0,
     visits          |-> 0]

root_node == <<>>

\* node.parent
Parent(n) == SubSeq(n, 1, Len(n) - 1)

\* node.child_nodes[action]
Child(n, a) == Append(n, a)

\* The state a node stands for: the input state advanced by the node's actions
RECURSIVE StateOf(_, _)
StateOf(s, n) ==
    IF n = <<>> THEN s ELSE StateOf(next_state(s, Head(n)), Tail(n))

SeqToSet(q) == {q[i] : i \in 1..Len(q)}

---------------------------------------------------------------------------
(* traverse_nodes and ucb *)

\* mid * mid for mid < 10^8, in two limbs of eight decimal digits each so
\* that no intermediate value leaves 32 bits
Square(mid) ==
    LET a == mid \div 10000
        b == mid % 10000
        cross == 2 * a * b
        low == (cross % 10000) * 10000 + b * b
    IN [hi |-> a * a + cross \div 10000 + low \div 100000000,
        lo |-> low % 100000000]

\* mid * mid <= x * 10^6
SquareAtMost(mid, x) ==
    LET sq == Square(mid)
        xhi == x \div 100
        xlo == (x % 100) * 1000000
    IN sq.hi < xhi \/ (sq.hi = xhi /\ sq.lo <= xlo)

\* The greatest r in lo..hi with r * r <= x * 10^6, by bisection
RECURSIVE SqrtBetween(_, _, _)
SqrtBetween(x, lo, hi) ==
    IF lo = hi THEN lo
    ELSE LET mid == (lo + hi + 1) \div 2
         IN IF SquareAtMost(mid, x) THEN SqrtBetween(x, mid, hi)
                                    ELSE SqrtBetween(x, lo, mid - 1)

\* The first count decimals of rem / d, as an integer, for rem < d
RECURSIVE Decimals(_, _, _)
Decimals(rem, d, count) ==
    IF count = 0 THEN 0
    ELSE ((rem * 10) \div d) * 10^(count - 1)
           + Decimals((rem * 10) % d, d, count - 1)

\* A fixed-point number is a pair <<u, r>>: u units of a first size and r in
\* 0..9999 ten-thousandths of that unit.
\* math.sqrt on <<x, y>> in units of 1e-8 and 1e-12, giving units of 1e-7
\* and 1e-11: the integer root r0 of the first fourteen decimals, then the
\* quotient of what is left by 2 * r0
sqrt(v) ==
    LET x  == v[1]
        r0 == SqrtBetween(x, 0, 46340950)
        sq == Square(r0)
        left == (x \div 100 - sq.hi) * 100000000
                  + ((x % 100) * 1000000 - sq.lo) + v[2] * 100
    IN IF r0 = 0 THEN <<0, 0>>
       ELSE <<r0 + left \div (2 * r0), Decimals(left % (2 * r0), 2 * r0, 4)>>

\* factor * v / divisor for a fixed-point v in units of 1e-8 and 1e-12
Scaled(v, factor, divisor) ==
    LET hi   == factor * v[1]
        rest == ((hi % divisor) * 10000 + factor * v[2]) \div divisor
    IN <<hi \div divisor + rest \div 10000, rest % 10000>>

\* wins / visits in units of 1e-7 and 1e-11
Rate(wins, visits) ==
    <<(wins * 10000000) \div visits,
      (((wins * 10000000) % visits) * 10000) \div visits>>

\* a + b for fixed-point numbers of the same units
Plus(a, b) == <<a[1] + b[1] + (a[2] + b[2]) \div 10000, (a[2] + b[2]) % 10000>>

\* a > b for fixed-point numbers of the same units
Greater(a, b) == a[1] > b[1] \/ (a[1] = b[1] /\ a[2] > b[2])

\* Variant: the logarithm to base 2 (log(n) / 0.6931), in units of 1e-8
log_base_2(n) == <<(LnE8[n] \div 6931) * 10000, 0>>

\* math.log(n) / math.log(2.71828), in units of 1e-8 and 1e-12
natural_log(n) == <<LnE8[n], LnE12[n]>>

\* Variant: the exploitation term is taken from the wrong side (1 - rate
\* for the bot's own moves, rate for the opponent's)
ucb_inverted(t, n, is_opponent) ==
    IF n = root_node THEN <<-1 * 10000000, 0>>
    ELSE LET exploit == IF is_opponent
                        THEN Rate(t[n].wins, t[n].visits)
                        ELSE Rate(t[n].visits - t[n].wins, t[n].visits)
             explore == sqrt(Scaled(natural_log(t[Parent(n)].visits),
                                    explore_faction * explore_faction,
                                    t[n].visits))
         IN Plus(exploit, explore)

\* ucb(node, is_opponent), in fixed point with eleven decimals (units of
\* 1e-7 and 1e-11); defined when the node and its parent have visits >= 1
ucb(t, n, is_opponent) ==
    IF n = root_node THEN <<-1 * 10000000, 0>>
    ELSE LET exploit == IF is_opponent
                        THEN Rate(t[n].visits - t[n].wins, t[n].visits)
                        ELSE Rate(t[n].wins, t[n].visits)
             explore == sqrt(Scaled(natural_log(t[Parent(n)].visits),
                                    explore_faction * explore_faction,
                                    t[n].visits))
         IN Plus(exploit, explore)

\* Variant: the identity is 1 when it was 1, and 2 otherwise
next_identity_kept(identity) == IF identity = 1 THEN 1 ELSE 2

\* current_identity = (1 if current_identity == 2 else 2)
next_identity(identity) == IF identity = 2 THEN 1 ELSE 2

\* Variant: a child whose ucb equals the best so far replaces it
RECURSIVE ChooseChild_last_of_ties(_, _, _, _, _, _)
ChooseChild_last_of_ties(t, n, is_opponent, i, uct_val, chosen) ==
    IF i > Len(t[n].child_keys) THEN chosen
    ELSE LET k == t[n].child_keys[i]
             u == ucb(t, Child(n, k), is_opponent)
         IN IF ~Greater(uct_val, u)
            THEN ChooseChild_last_of_ties(t, n, is_opponent, i + 1, u, k)
            ELSE ChooseChild_last_of_ties(t, n, is_opponent, i + 1, uct_val,
                                          chosen)

\* The for loop of traverse_nodes over starter.child_nodes.keys(), from key
\* number i on: the chosen_move it ends with
RECURSIVE ChooseChild(_, _, _, _, _, _)
ChooseChild(t, n, is_opponent, i, uct_val, chosen) ==
    IF i > Len(t[n].child_keys) THEN chosen
    ELSE LET k == t[n].child_keys[i]
             u == ucb(t, Child(n, k), is_opponent)
         IN IF Greater(u, uct_val)
            THEN ChooseChild(t, n, is_opponent, i + 1, u, k)
            ELSE ChooseChild(t, n, is_opponent, i + 1, uct_val, chosen)

\* Variant: the while condition does not test is_ended
TraverseCondition_ignores_end == tree[node].untried_actions = <<>>

\* The while condition of traverse_nodes
TraverseCondition ==
    tree[node].untried_actions = <<>> /\ ~is_ended(board, current_game)

---------------------------------------------------------------------------
(* expand_leaf *)

\* Variant: the chosen action is read but not popped from untried_actions
expand_leaf_keeps_untried(t, n, b, s) ==
    IF is_ended(b, s) THEN [tree |-> t, node |-> n, state |-> s]
    ELSE LET move == t[n].untried_actions[1]
             game == next_state(s, move)
             new  == Child(n, move)
             keys == IF move \in SeqToSet(t[n].child_keys)
                     THEN t[n].child_keys
                     ELSE Append(t[n].child_keys, move)
         IN [tree  |-> [x \in DOMAIN t \cup {new} |->
                          IF x = new THEN MCTSNode(move, legal_actions(b, game))
                          ELSE IF x = n THEN [t[n] EXCEPT !.child_keys = keys]
                          ELSE t[x]],
             node  |-> new,
             state |-> game]

\* Variant: the last untried action is popped, not the first
expand_leaf_pops_last(t, n, b, s) ==
    IF is_ended(b, s) THEN [tree |-> t, node |-> n, state |-> s]
    ELSE LET untried == t[n].untried_actions
             move    == untried[Len(untried)]
             game    == next_state(s, move)
             new     == Child(n, move)
             popped  == [t[n] EXCEPT
                           !.untried_actions = SubSeq(untried, 1, Len(untried) - 1),
                           !.child_keys = Append(@, move)]
         IN [tree  |-> [x \in DOMAIN t \cup {new} |->
                          IF x = new THEN MCTSNode(move, legal_actions(b, game))
                          ELSE IF x = n THEN popped ELSE t[x]],
             node  |-> new,
             state |-> game]

\* expand_leaf(node, board, state) on a node with an untried action:
\* the tree, node and state after it
expand_leaf(t, n, b, s) ==
    IF is_ended(b, s) THEN [tree |-> t, node |-> n, state |-> s]
    ELSE LET move    == t[n].untried_actions[1]
             game    == next_state(s, move)
             new     == Child(n, move)
             keys    == IF move \in SeqToSet(t[n].child_keys)
                        THEN t[n].child_keys
                        ELSE Append(t[n].child_keys, move)
             popped  == [t[n] EXCEPT !.untried_actions = Tail(@),
                                     !.child_keys = keys]
         IN [tree  |-> [x \in DOMAIN t \cup {new} |->
                          IF x = new THEN MCTSNode(move, legal_actions(b, game))
                          ELSE IF x = n THEN popped ELSE t[x]],
             node  |-> new,
             state |-> game]

---------------------------------------------------------------------------
(* rollout and heuristic *)

\* Whether playing move in state s makes a box that bot_id did not own
\* owned by bot_id (the two if statements of heuristic's inner loop)
WinsBox(s, move, bot_id) ==
    LET avail_prev == owned_boxes(s)
        avail_next == owned_boxes(next_state(s, move))
    IN \E mini \in DOMAIN avail_prev :
          /\ bot_id \in {1, 2}
          /\ avail_prev[mini] # avail_next[mini]
          /\ avail_next[mini] = bot_id

\* heuristic(board, state, moves, bot_identity), from move number i on
RECURSIVE heuristic_from(_, _, _, _)
heuristic_from(s, moves, bot_id, i) ==
    IF i > Len(moves) THEN None
    ELSE IF WinsBox(s, moves[i], bot_id) THEN moves[i]
    ELSE heuristic_from(s, moves, bot_id, i + 1)

heuristic(s, moves, bot_id) == heuristic_from(s, moves, bot_id, 1)

\* The state heuristic is called on by the rollout of mcts_modified:
\* rollout's argument state, not its current_game
HeuristicState == state

\* Variant: rollout returns its argument state
rollout_returns_argument == state

\* return current_game: the state rollout returns when its loop has ended
rollout_return == current_game

---------------------------------------------------------------------------
(* backpropagate and is_win *)

\* is_win(board, state, identity_of_bot), on an ended state
is_win(b, s, identity_of_bot) == points_values(b, s)[identity_of_bot] = 1

\* bool as int: wins += won
AsInt(won) == IF won THEN 1 ELSE 0

\* Variant: the walk stops below the root, whose visits stay as they are
RECURSIVE backpropagate_stops_below_root(_, _, _)
backpropagate_stops_below_root(t, n, won) ==
    IF n = root_node THEN t
    ELSE backpropagate_stops_below_root(
             [t EXCEPT ![n].visits = @ + 1, ![n].wins = @ + AsInt(won)],
             Parent(n), won)

\* Variant: wins += won comes before the test for the root
RECURSIVE backpropagate_credits_root(_, _, _)
backpropagate_credits_root(t, n, won) ==
    LET updated == [t EXCEPT ![n].visits = @ + 1, ![n].wins = @ + AsInt(won)]
    IN IF n = root_node THEN updated
       ELSE backpropagate_credits_root(updated, Parent(n), won)

\* Variant: the walk starts at the leaf's parent, the leaf is not visited
RECURSIVE BackpropagateFrom(_, _, _)
BackpropagateFrom(t, n, won) ==
    LET visited == [t EXCEPT ![n].visits = @ + 1]
    IN IF n = root_node THEN visited
       ELSE BackpropagateFrom([visited EXCEPT ![n].wins = @ + AsInt(won)],
                              Parent(n), won)

backpropagate_skips_leaf(t, n, won) ==
    IF n = root_node THEN BackpropagateFrom(t, n, won)
    ELSE BackpropagateFrom(t, Parent(n), won)

\* backpropagate(node, won): the tree after it
RECURSIVE backpropagate(_, _, _)
backpropagate(t, n, won) ==
    LET visited == [t EXCEPT ![n].visits = @ + 1]
    IN IF n = root_node THEN visited
       ELSE backpropagate([visited EXCEPT ![n].wins = @ + AsInt(won)],
                          Parent(n), won)

---------------------------------------------------------------------------
(* get_best_action *)

\* wins / visits > val, with val kept as a fraction; the initial val is
\* the integer MinusInfinity
RateGreater(wins, visits, v) ==
    IF v.wins = MinusInfinity THEN wins \div visits > MinusInfinity
    ELSE wins * v.visits > v.wins * visits

\* Variant: one of the two comparisons is enough to replace the best
get_best_action_step_either(best, c, k) ==
    IF RateGreater(c.wins, c.visits, best.val) \/ c.visits > best.visit
    THEN [val |-> [wins |-> c.wins, visits |-> c.visits],
          visit |-> c.visits, chosen_move |-> k]
    ELSE best

\* Variant: the child with the greatest win rate, visits not compared
get_best_action_step_rate_only(best, c, k) ==
    IF RateGreater(c.wins, c.visits, best.val)
    THEN [val |-> [wins |-> c.wins, visits |-> c.visits],
          visit |-> c.visits, chosen_move |-> k]
    ELSE best

\* The body of get_best_action's for loop for the child c under key k:
\* the new val, visit and chosen_move
get_best_action_step(best, c, k) ==
    IF RateGreater(c.wins, c.visits, best.val) /\ c.visits > best.visit
    THEN [val |-> [wins |-> c.wins, visits |-> c.visits],
          visit |-> c.visits, chosen_move |-> k]
    ELSE best

\* Variant: val starts at 0
InitialBest_rate_zero ==
    [val |-> [wins |-> 0, visits |-> 1], visit |-> -1, chosen_move |-> None]

\* val = -1000000000, visit = -1, chosen_move = None
InitialBest ==
    [val |-> [wins |-> MinusInfinity, visits |-> 1], visit |-> -1,
     chosen_move |-> None]

---------------------------------------------------------------------------
(* think *)

\* The input states: positions of the synthetic game with at most
\* MaxClaimed cells claimed, player 1 having moved first
Count(cells, p) == Cardinality({c \in Cells : cells[c] = p})

StartStates ==
    {s \in [cells : [Cells -> 0..2], turn : 1..2] :
        /\ Count(s.cells, 1) + Count(s.cells, 2) <= MaxClaimed
        /\ Count(s.cells, 1) - Count(s.cells, 2) \in {0, 1}
        /\ s.turn = IF Count(s.cells, 1) = Count(s.cells, 2) THEN 1 ELSE 2}

Boards == [mine : 0..NumCells, desc : BOOLEAN]

\* think up to the construction of root_node, for given inputs
ThinkStart(b, s, pol, budget) ==
    /\ board = b
    /\ current_state = s
    /\ policy = pol
    /\ num_nodes = budget
    /\ bot_identity = current_player(s)
    /\ tree = [n \in {root_node} |-> MCTSNode(None, legal_actions(b, s))]
    /\ iter = 0
    /\ pc = "loop"
    /\ node = root_node
    /\ state = s
    /\ current_game = s
    /\ current_identity = current_player(s)
    /\ move_chosen = None
    /\ val = InitialBest.val
    /\ visit = InitialBest.visit
    /\ chosen_move = InitialBest.chosen_move
    /\ scanned = 0
    /\ best_action = None
    /\ error = "none"

Init ==
    \E b \in Boards, s \in StartStates, pol \in {"random", "heuristic"},
       budget \in 0..MaxNodes :
        ThinkStart(b, s, pol, budget)

\* An exception leaves think
Raise(e) ==
    /\ error' = e
    /\ pc' = "error"
    /\ UNCHANGED <<board, current_state, policy, num_nodes, bot_identity, tree,
                   iter, node, state, current_game, current_identity,
                   move_chosen, val, visit, chosen_move, scanned, best_action>>

\* for _ in range(num_nodes): state = current_state; node = root_node; and
\* the entry of traverse_nodes
StartIteration ==
    /\ pc = "loop"
    /\ iter < num_nodes
    /\ pc' = "traverse"
    /\ node' = root_node
    /\ state' = current_state
    /\ current_game' = current_state
    /\ current_identity' = bot_identity
    /\ UNCHANGED <<board, current_state, policy, num_nodes, bot_identity, tree,
                   iter, move_chosen, val, visit, chosen_move, scanned,
                   best_action, error>>

\* One pass of the while loop of traverse_nodes
TraverseStep ==
    /\ pc = "traverse"
    /\ TraverseCondition
    /\ IF tree[node].child_keys = <<>> THEN Raise("AttributeError")
       ELSE IF tree[node].visits = 0 THEN Raise("ValueError")
       ELSE IF \E k \in SeqToSet(tree[node].child_keys) :
                   tree[Child(node, k)].visits = 0
            THEN Raise("ZeroDivisionError")
       ELSE LET move == ChooseChild(tree, node, current_identity # bot_identity,
                                    1, <<MinusInfinity, 0>>, None)
            IN /\ node' = Child(node, move)
               /\ current_game' = next_state(current_game, move)
               /\ current_identity' = next_identity(current_identity)
               /\ UNCHANGED <<board, current_state, policy, num_nodes,
                              bot_identity, tree, iter, pc, state, move_chosen,
                              val, visit, chosen_move, scanned, best_action,
                              error>>

\* traverse_nodes returns; expand_leaf; the entry of rollout
ExpandLeaf ==
    /\ pc = "traverse"
    /\ ~TraverseCondition
    /\ IF ~is_ended(board, current_game) /\ tree[node].untried_actions = <<>>
       THEN Raise("IndexError")
       ELSE LET r == expand_leaf(tree, node, board, current_game)
            IN /\ tree' = r.tree
               /\ node' = r.node
               /\ state' = r.state
               /\ current_game' = r.state
               /\ move_chosen' = None
               /\ pc' = "rollout"
               /\ UNCHANGED <<board, current_state, policy, num_nodes,
                              bot_identity, iter, current_identity, val, visit,
                              chosen_move, scanned, best_action, error>>

\* One pass of the while loop of rollout
RolloutStep ==
    /\ pc = "rollout"
    /\ ~is_ended(board, current_game)
    /\ LET moves == legal_actions(board, current_game)
           h == IF policy = "heuristic"
                THEN heuristic(HeuristicState, moves, bot_identity)
                ELSE None
       IN IF moves = <<>> THEN Raise("IndexError")
          ELSE \E m \in SeqToSet(moves) :
                 /\ h # None => m = h
                 /\ move_chosen' = m
                 /\ current_game' = next_state(current_game, m)
                 /\ UNCHANGED <<board, current_state, policy, num_nodes,
                                bot_identity, tree, iter, pc, node, state,
                                current_identity, val, visit, chosen_move,
                                scanned, best_action, error>>

\* rollout returns; is_win; backpropagate; the iteration is complete
Backpropagate ==
    /\ pc = "rollout"
    /\ is_ended(board, current_game)
    /\ IF points_values(board, rollout_return) = <<>> THEN Raise("AssertionError")
       ELSE /\ state' = rollout_return
            /\ tree' = backpropagate(tree, node,
                                     is_win(board, rollout_return, bot_identity))
            /\ iter' = iter + 1
            /\ pc' = "loop"
            /\ UNCHANGED <<board, current_state, policy, num_nodes,
                           bot_identity, node, current_game, current_identity,
                           move_chosen, val, visit, chosen_move, scanned,
                           best_action, error>>

\* One pass of the for loop of get_best_action(root_node)
GetBestActionStep ==
    /\ pc = "loop"
    /\ iter = num_nodes
    /\ scanned < Len(tree[root_node].child_keys)
    /\ LET k == tree[root_node].child_keys[scanned + 1]
           c == tree[Child(root_node, k)]
           best == get_best_action_step(
                      [val |-> val, visit |-> visit, chosen_move |-> chosen_move],
                      c, k)
       IN IF c.visits = 0 THEN Raise("ZeroDivisionError")
          ELSE /\ val' = best.val
               /\ visit' = best.visit
               /\ chosen_move' = best.chosen_move
               /\ scanned' = scanned + 1
               /\ UNCHANGED <<board, current_state, policy, num_nodes,
                              bot_identity, tree, iter, pc, node, state,
                              current_game, current_identity, move_chosen,
                              best_action, error>>

\* get_best_action returns chosen_move and think returns it
GetBestActionReturn ==
    /\ pc = "loop"
    /\ iter = num_nodes
    /\ scanned = Len(tree[root_node].child_keys)
    /\ best_action' = chosen_move
    /\ pc' = "done"
    /\ UNCHANGED <<board, current_state, policy, num_nodes, bot_identity, tree,
                   iter, node, state, current_game, current_identity,
                   move_chosen, val, visit, chosen_move, scanned, error>>

Next ==
    \/ StartIteration
    \/ TraverseStep
    \/ ExpandLeaf
    \/ RolloutStep
    \/ Backpropagate
    \/ GetBestActionStep
    \/ GetBestActionReturn

Spec == Init /\ [][Next]_vars

TypeOK ==
    /\ pc \in {"loop", "traverse", "rollout", "done", "error"}
    /\ iter \in 0..num_nodes
    /\ node \in DOMAIN tree
    /\ error = "none"

---------------------------------------------------------------------------
(* think on the one-ply game: the player to move has exactly two legal     *)
(* actions, cell 2 completes its box (an immediate win) and cell 4 is the  *)
(* mine (an immediate loss)                                                *)

OnePlyState(p) ==
    [cells |-> [c \in Cells |->
                  IF c \in {2, 4} THEN 0
                  ELSE IF c = 3 THEN Other(p)
                  ELSE IF c % 2 = 1 THEN p ELSE Other(p)],
     turn  |-> p]

InitOnePly ==
    \E d \in BOOLEAN, p \in 1..2, pol \in {"random", "heuristic"},
       budget \in 50..MaxOnePlyNodes :
        ThinkStart([mine |-> 4, desc |-> d], OnePlyState(p), pol, budget)

\* Every child of the root is terminal: the while loop of rollout never runs
NextOnePly ==
    \/ StartIteration
    \/ TraverseStep
    \/ ExpandLeaf
    \/ Backpropagate
    \/ GetBestActionStep
    \/ GetBestActionReturn

SpecOnePly == InitOnePly /\ [][NextOnePly]_vars

---------------------------------------------------------------------------
(* get_best_action on its own: a root whose children carry drawn           *)
(* statistics, in a drawn mapping order                                    *)

\* The two children of the tie-break fixture, as <<wins, visits>>
ChildA == <<3, 4>>

ChildB == <<5, 10>>

SelStats ==
    {<<w, v>> : w \in 0..MaxSelVisits, v \in 1..MaxSelVisits} \cup {ChildA, ChildB}

RECURSIVE SumVisits(_)
SumVisits(stats) ==
    IF stats = <<>> THEN 0 ELSE Head(stats)[2] + SumVisits(Tail(stats))

\* The tree of a fully expanded root with Len(stats) children; child number
\* i of the mapping has key keys[i], wins stats[i][1] and visits stats[i][2]
SelTree(keys, stats) ==
    [n \in {root_node} \cup {<<keys[i]>> : i \in 1..Len(keys)} |->
        IF n = root_node
        THEN [MCTSNode(None, <<>>) EXCEPT !.child_keys = keys,
                                          !.visits = SumVisits(stats)]
        ELSE LET i == CHOOSE j \in 1..Len(keys) : keys[j] = n[1]
             IN [MCTSNode(n[1], <<>>) EXCEPT !.wins = stats[i][1],
                                             !.visits = stats[i][2]]]

InitSel ==
    \E k \in 0..MaxSelChildren, rev \in BOOLEAN :
      \E stats \in [1..k -> {st \in SelStats : st[1] <= st[2]}] :
        LET keys == [i \in 1..k |-> IF rev THEN k + 1 - i ELSE i]
            s0 == [cells |-> [c \in Cells |-> 0], turn |-> 1]
        IN /\ board = [mine |-> 0, desc |-> rev]
           /\ current_state = s0
           /\ policy = "random"
           /\ num_nodes = SumVisits(stats)
           /\ bot_identity = 1
           /\ tree = SelTree(keys, stats)
           /\ iter = SumVisits(stats)
           /\ pc = "loop"
           /\ node = root_node
           /\ state = s0
           /\ current_game = s0
           /\ current_identity = 1
           /\ move_chosen = None
           /\ val = InitialBest.val
           /\ visit = InitialBest.visit
           /\ chosen_move = InitialBest.chosen_move
           /\ scanned = 0
           /\ best_action = None
           /\ error = "none"

NextSel ==
    \/ GetBestActionStep
    \/ GetBestActionReturn

SpecSel == InitSel /\ [][NextSel]_vars

---------------------------------------------------------------------------
(* Properties *)

Nodes == DOMAIN tree

ChildrenOf(n) == {Child(n, k) : k \in SeqToSet(tree[n].child_keys)}

\* get_best_action has been called (its loop is running or it has returned)
Selecting == (pc = "loop" /\ iter = num_nodes) \/ pc = "done"

\* C1: the root's visits equal the number of completed iterations in every
\* state of think (0 before the first, one more after each iteration), and
\* equal num_nodes once get_best_action is called.
C1_RootVisitsCountIterations ==
    /\ tree[root_node].visits = iter
    /\ Selecting => tree[root_node].visits = num_nodes

\* C1 witness: think has returned after at least three iterations, of which
\* some expanded a child and some ended on an already expanded node.
C1_Witness ==
    /\ pc = "done"
    /\ num_nodes >= 3
    /\ tree[root_node].visits = num_nodes
    /\ Cardinality(Nodes) > 1
    /\ Cardinality(Nodes) < num_nodes + 1

\* C2: every non-root node has 0 <= wins <= visits and the root's wins are 0.
C2_WinsBoundedByVisits ==
    /\ tree[root_node].wins = 0
    /\ \A n \in Nodes \ {root_node} :
          0 <= tree[n].wins /\ tree[n].wins <= tree[n].visits

\* C2 witness: after backpropagations of wins and of losses, a node has
\* some wins but fewer than visits, and another as many wins as visits.
C2_Witness ==
    /\ pc = "loop"
    /\ \E n \in Nodes : 0 < tree[n].wins /\ tree[n].wins < tree[n].visits
    /\ \E n \in Nodes : 0 < tree[n].wins /\ tree[n].wins = tree[n].visits

\* C3: for every node, untried_actions and the keys of child_nodes are
\* disjoint and together are exactly the legal actions of the node's state
\* (the list given to the node at creation), so their lengths add up to it.
C3_UntriedAndChildrenPartition ==
    \A n \in Nodes :
        LET legal == legal_actions(board, StateOf(current_state, n))
            untried == tree[n].untried_actions
            keys == tree[n].child_keys
        IN /\ SeqToSet(untried) \cap SeqToSet(keys) = {}
           /\ SeqToSet(untried) \cup SeqToSet(keys) = SeqToSet(legal)
           /\ Len(untried) + Len(keys) = Len(legal)

\* C3 witness: a node with both children and untried actions left, below a
\* fully expanded node.
C3_Witness ==
    \E n \in Nodes \ {root_node} :
        /\ tree[n].child_keys # <<>>
        /\ tree[n].untried_actions # <<>>
        /\ tree[Parent(n)].untried_actions = <<>>

\* C4: no ZeroDivisionError: whenever traverse_nodes is about to evaluate
\* ucb on the children of a node, and whenever get_best_action reads the
\* root's children, every such child and its parent have visits >= 1.
C4_NoDivisionByZero ==
    /\ error \notin {"ZeroDivisionError", "ValueError"}
    /\ (pc = "traverse" /\ TraverseCondition) =>
          /\ tree[node].visits >= 1
          /\ \A c \in ChildrenOf(node) : tree[c].visits >= 1
    /\ Selecting =>
          \A c \in ChildrenOf(root_node) :
              tree[c].visits >= 1 /\ tree[root_node].visits >= 1

\* C4 witness: get_best_action has compared several children, after
\* traverse_nodes has scored the children of the root and of a deeper node
\* (a grandchild of the root was reached a second time).
C4_Witness ==
    /\ pc = "done"
    /\ scanned >= 2
    /\ \E n \in Nodes : Len(n) = 2 /\ tree[n].visits >= 2

\* The wins and visits of the root's child under action k
StatsOf(k) == <<tree[<<k>>].wins, tree[<<k>>].visits>>

RootKeys == tree[root_node].child_keys

\* C5: get_best_action scans the root's children in mapping order; the
\* scanned child becomes the best-so-far if and only if its win rate is
\* strictly greater than the best-so-far's and its visits are strictly
\* greater than the best-so-far's (anything beats the initial best);
\* otherwise the best-so-far is kept; the last best-so-far is returned.
C5_ReplacedIffBothGreater ==
    [][/\ (pc = "loop" /\ iter = num_nodes /\ scanned' = scanned + 1) =>
            LET k == RootKeys[scanned + 1]
                c == tree[<<k>>]
                rate_greater ==
                    chosen_move = None \/ c.wins * val.visits > val.wins * c.visits
                visits_greater == chosen_move = None \/ c.visits > visit
            IN IF rate_greater /\ visits_greater
               THEN /\ chosen_move' = k
                    /\ visit' = c.visits
                    /\ val'.wins * c.visits = c.wins * val'.visits
               ELSE UNCHANGED <<val, visit, chosen_move>>
       /\ (pc = "loop" /\ pc' = "done") =>
            scanned = Len(RootKeys) /\ best_action' = chosen_move]_vars

\* C5 witness: the returned action's child has neither the highest win
\* rate nor the most visits among the root's children.
C5_Witness ==
    /\ pc = "done"
    /\ best_action # None
    /\ \E a \in SeqToSet(RootKeys) :
          StatsOf(a)[1] * StatsOf(best_action)[2]
              > StatsOf(best_action)[1] * StatsOf(a)[2]
    /\ \E b \in SeqToSet(RootKeys) : StatsOf(b)[2] > StatsOf(best_action)[2]

\* The root's children are exactly child A (3 wins, 4 visits) and child B
\* (5 wins, 10 visits), in either mapping order
FixtureAB ==
    /\ Len(RootKeys) = 2
    /\ {StatsOf(RootKeys[1]), StatsOf(RootKeys[2])} = {ChildA, ChildB}

\* C6 as stated: with children A and B, get_best_action returns A's action
\* in each mapping order.
C6_ReturnsAInEachOrder ==
    (pc = "done" /\ FixtureAB) =>
        best_action # None /\ StatsOf(best_action) = ChildA

\* C6 amended: with exactly the children A and B, get_best_action returns
\* the action of the child that comes first in the mapping: A's action when
\* A precedes B, B's action when B precedes A.
C6_ReturnsFirstOfAB ==
    (pc = "done" /\ FixtureAB) =>
        /\ best_action = RootKeys[1]
        /\ StatsOf(RootKeys[1]) = ChildA => StatsOf(best_action) = ChildA
        /\ StatsOf(RootKeys[1]) = ChildB => StatsOf(best_action) = ChildB

\* C6 witness: B precedes A in the mapping and B's action is returned.
C6_Witness ==
    /\ pc = "done"
    /\ FixtureAB
    /\ StatsOf(RootKeys[1]) = ChildB
    /\ StatsOf(RootKeys[2]) = ChildA
    /\ best_action = RootKeys[1]

\* C7: when the input state is terminal or the budget is 0 the root never
\* gets a child, think raises nothing and returns None; a root without
\* children at the end occurs only in these two cases; with a terminal
\* input state the tree stays the lone root, selection, expansion and
\* rollout leave node and state as they are and only the root's visits grow.
C7_NoChildrenReturnsNone ==
    /\ (is_ended(board, current_state) \/ num_nodes = 0) =>
          /\ error = "none" /\ pc # "error"
          /\ RootKeys = <<>>
          /\ pc = "done" => best_action = None
    /\ (pc = "done" /\ RootKeys = <<>>) =>
          /\ best_action = None
          /\ is_ended(board, current_state) \/ num_nodes = 0
    /\ is_ended(board, current_state) =>
          /\ Nodes = {root_node}
          /\ tree[root_node] = [MCTSNode(None, <<>>) EXCEPT !.visits = iter]
          /\ node = root_node
          /\ state = current_state
          /\ current_game = current_state

\* C7 witness: think has returned None on a terminal input state after at
\* least two iterations, each of which only incremented the root's visits.
C7_Witness ==
    /\ pc = "done"
    /\ is_ended(board, current_state)
    /\ num_nodes >= 2
    /\ tree[root_node].visits = num_nodes
    /\ best_action = None

\* C8: at every step of a heuristic rollout, if some legal action of the
\* current rollout state makes a box owned by the bot (comparing
\* owned_boxes of the current rollout state and of its successor), the first
\* such action in legal-action order is the move played; the random choice is
\* used only when there is none.
C8_HeuristicAtEveryStep ==
    [][(/\ policy = "heuristic"
        /\ pc = "rollout" /\ pc' = "rollout"
        /\ current_game' # current_game) =>
            LET first == heuristic(current_game,
                                   legal_actions(board, current_game),
                                   bot_identity)
            IN first # None => move_chosen' = first]_vars

\* C10: on the one-ply game think returns the winning action (cell 2) for
\* every budget in 50..MaxOnePlyNodes, whichever action comes first.
C10_OnePlyReturnsWin ==
    pc = "done" => best_action = 2

\* C10 witness: the losing action (cell 4, the mine) comes first in the
\* legal-action order, was tried more than once, and the winning action is
\* returned after a budget of at least 50.
C10_Witness ==
    /\ pc = "done"
    /\ board.desc
    /\ num_nodes >= 50
    /\ RootKeys = <<4, 2>>
    /\ tree[<<4>>].visits >= 2
    /\ tree[<<4>>].wins = 0
    /\ tree[<<2>>].wins = tree[<<2>>].visits
    /\ best_action = 2

---------------------------------------------------------------------------
(* Soundness of the fixed-point ucb *)

\* ucb is computed with eleven decimals, within 3 units of 1e-11 of the
\* floating-point value, which orders any two children as floating point
\* does for parent visits up to 64; in the trees think builds here two
\* children of different statistics never come closer than 3999 units of
\* 1e-7
UcbDecisive ==
    \A n \in Nodes : \A c1, c2 \in ChildrenOf(n) : \A opp \in BOOLEAN :
        (/\ tree[n].visits >= 1 /\ tree[c1].visits >= 1 /\ tree[c2].visits >= 1
         /\ <<tree[c1].wins, tree[c1].visits>> # <<tree[c2].wins, tree[c2].visits>>)
        => \/ ucb(tree, c1, opp)[1] - ucb(tree, c2, opp)[1] >= 3999
           \/ ucb(tree, c2, opp)[1] - ucb(tree, c1, opp)[1] >= 3999

---------------------------------------------------------------------------
(* Properties, continued *)

Claimed(s) == Count(s.cells, 1) + Count(s.cells, 2)

\* The number of plies the game can still last from state s
PliesLeft(s) == Cardinality({c \in Cells : s.cells[c] = 0})

\* C11: every step of a rollout (random or heuristic) plays a legal action
\* of the current rollout state, which brings the game one ply closer to its
\* end; a rollout that has not reached an ended state can always take a
\* step, so every rollout returns after finitely many steps; the state it
\* returns is ended, and is_win never finds points_values to be None.
C11_RolloutReturnsTerminal ==
    /\ [][(pc = "rollout" /\ pc' = "rollout" /\ current_game' # current_game) =>
            /\ move_chosen' \in SeqToSet(legal_actions(board, current_game))
            /\ current_game' = next_state(current_game, move_chosen')
            /\ PliesLeft(current_game') < PliesLeft(current_game)]_vars
    /\ [][(pc = "rollout" /\ pc' # "rollout") =>
            /\ pc' = "loop" /\ error' = "none"
            /\ is_ended(board, state')
            /\ points_values(board, state') # <<>>]_vars
    /\ [](pc = "rollout" => ENABLED (RolloutStep \/ Backpropagate))
    /\ [](error \notin {"AssertionError", "IndexError"})

\* C11 witness: a heuristic rollout of at least two steps has returned an
\* ended state and the iteration is complete.
C11_Witness ==
    /\ pc = "loop"
    /\ iter >= 1
    /\ policy = "heuristic"
    /\ move_chosen # None
    /\ is_ended(board, state)
    /\ Claimed(state) >= Claimed(StateOf(current_state, node)) + 2

---------------------------------------------------------------------------
(* C12: the UCB1 numeric check *)

\* The nodes of the numeric check: visited once and won, under a parent
\* visited four times
NumericCheckNodes ==
    {n \in Nodes \ {root_node} :
        /\ tree[n].visits = 1 /\ tree[n].wins = 1
        /\ tree[Parent(n)].visits = 4}

\* u is within 1e-6 of centre, given in units of 1e-7
WithinMillionth(u, centre) ==
    u[1] >= centre - 10 /\ ~Greater(u, <<centre + 10, 0>>)

\* C12 as stated: for a node of visits 1 and wins 1 under a parent of visits
\* 4, with exploration factor 2 and is_opponent false, ucb is 3.3548 within
\* 1e-6.
C12_UcbIs33548 ==
    \A n \in NumericCheckNodes :
        WithinMillionth(ucb(tree, n, FALSE), 33548000)

\* C12 amended: for such a node ucb is 3.35482 within 1e-6: exploitation 1.0
\* plus exploration 2*sqrt(ln 4 / 1), the logarithm being the natural one
\* (computed as log(4) / log(2.71828)).
C12_UcbIs335482 ==
    \A n \in NumericCheckNodes :
        /\ explore_faction = 2
        /\ WithinMillionth(ucb(tree, n, FALSE), 33548200)

\* C12 witness: traverse_nodes has just compared the children of a root
\* visited four times and descended to one visited once and won
C12_Witness ==
    /\ pc = "traverse"
    /\ error = "none"
    /\ Len(node) = 1
    /\ node \in NumericCheckNodes
    /\ current_identity # bot_identity

---------------------------------------------------------------------------
(* C13: the frame of backpropagate *)

\* n is on the parent chain that leads from leaf up to the root
OnChain(n, leaf) == Len(n) <= Len(leaf) /\ SubSeq(leaf, 1, Len(n)) = n

\* C13: backpropagate(leaf, won) adds 1 to visits at every node of the parent
\* chain from the leaf up to and including the root, adds won (0 or 1) to
\* wins at every node of the chain except the root, and leaves every node off
\* the chain, and the children and untried actions of every node, unchanged.
C13_BackpropagateFrame ==
    [][(pc = "rollout" /\ pc' = "loop") =>
        LET won == AsInt(is_win(board, state', bot_identity))
        IN /\ DOMAIN tree' = DOMAIN tree
           /\ \A n \in Nodes :
                IF OnChain(n, node)
                THEN /\ tree'[n].visits = tree[n].visits + 1
                     /\ tree'[n].wins = tree[n].wins
                                         + (IF n = root_node THEN 0 ELSE won)
                     /\ tree'[n].child_keys = tree[n].child_keys
                     /\ tree'[n].untried_actions = tree[n].untried_actions
                ELSE tree'[n] = tree[n]]_vars

\* C13 witness: a won rollout has been backpropagated from a leaf two levels
\* below the root, in a tree that has visited nodes off the leaf's chain
C13_Witness ==
    /\ pc = "loop"
    /\ iter >= 1
    /\ Len(node) >= 2
    /\ is_win(board, state, bot_identity)
    /\ tree[node].wins >= 1
    /\ tree[root_node].wins = 0
    /\ \E n \in Nodes : ~OnChain(n, node) /\ tree[n].visits >= 1

---------------------------------------------------------------------------
(* C14: what traverse_nodes returns *)

\* C14: in every iteration of think traverse_nodes finds a child to descend
\* to whenever its loop goes on, and steps to a node of the tree; its running
\* state is the input state advanced by the parent actions on the path from
\* the root to its current node; the pair it returns is a frontier pair (the
\* node has an untried action or the state is ended), so that expand_leaf
\* never pops from an empty untried list.
C14_TraverseReturnsFrontier ==
    /\ [](pc = "traverse" =>
            /\ node \in Nodes
            /\ current_game = StateOf(current_state, node)
            /\ (tree[node].untried_actions = <<>>
                    /\ ~is_ended(board, current_game))
                => tree[node].child_keys # <<>>)
    /\ [][(pc = "traverse" /\ pc' = "traverse") =>
            node' \in ChildrenOf(node) \cap Nodes]_vars
    /\ [][(pc = "traverse" /\ pc' # "traverse") =>
            /\ pc' = "rollout"
            /\ \/ tree[node].untried_actions # <<>>
               \/ is_ended(board, current_game)]_vars
    /\ [](error \notin {"AttributeError", "IndexError"})

\* C14 witness: traverse_nodes has descended two levels to a node without
\* untried actions whose state is ended, and returns
C14_Witness ==
    /\ pc = "traverse"
    /\ Len(node) >= 2
    /\ tree[node].untried_actions = <<>>
    /\ is_ended(board, current_game)
    /\ current_game = StateOf(current_state, node)

---------------------------------------------------------------------------
(* C15: what expand_leaf does *)

\* C15: on an ended state expand_leaf returns the same node and state and
\* leaves the tree as it is; otherwise it removes the first of the node's
\* untried actions, creates exactly one child, of visits 0 and wins 0, with
\* that action as parent action and the successor state's legal actions as
\* untried actions, registers it under that action in the node's children,
\* and returns the child with the successor state.
C15_ExpandLeafEffect ==
    [][(pc = "traverse" /\ pc' = "rollout") =>
        IF is_ended(board, current_game)
        THEN tree' = tree /\ node' = node /\ state' = current_game
        ELSE LET move == Head(tree[node].untried_actions)
                 game == next_state(current_game, move)
                 new  == Child(node, move)
             IN /\ new \notin Nodes
                /\ DOMAIN tree' = Nodes \cup {new}
                /\ tree'[new] = [parent_action   |-> move,
                                 child_keys      |-> <<>>,
                                 untried_actions |-> legal_actions(board, game),
                                 wins            |-> 0,
                                 visits          |-> 0]
                /\ tree'[node] =
                     [tree[node] EXCEPT
                        !.untried_actions = Tail(tree[node].untried_actions),
                        !.child_keys = Append(tree[node].child_keys, move)]
                /\ \A n \in Nodes \ {node} : tree'[n] = tree[n]
                /\ node' = new
                /\ state' = game]_vars

\* C15 witness: expand_leaf has just created a child (not yet visited) of a
\* node that had several untried actions and children already
C15_Witness ==
    /\ pc = "rollout"
    /\ move_chosen = None
    /\ node # root_node
    /\ tree[node].visits = 0
    /\ state = StateOf(current_state, node)
    /\ tree[Parent(node)].untried_actions # <<>>
    /\ Len(tree[Parent(node)].child_keys) >= 2

---------------------------------------------------------------------------
(* C16: the identity tracked by traverse_nodes *)

\* C16: during a descent of traverse_nodes the tracked identity starts as the
\* bot's identity (the player to move at the root) and flips between 1 and 2
\* at every step, so that the children of a node at even depth are scored
\* with is_opponent false and those of a node at odd depth with is_opponent
\* true; the tracked identity is the game's current player of the running
\* state.
C16_IdentityAlternates ==
    /\ [](pc = "traverse" =>
            /\ current_identity \in {1, 2}
            /\ bot_identity = current_player(current_state)
            /\ (Len(node) = 0 => current_identity = bot_identity)
            /\ (current_identity # bot_identity) = (Len(node) % 2 = 1)
            /\ current_identity = current_player(current_game))
    /\ [][(pc = "traverse" /\ pc' = "traverse") =>
            /\ current_identity' = Other(current_identity)
            /\ node' = Child(node, ChooseChild(tree, node, Len(node) % 2 = 1,
                                               1, <<MinusInfinity, 0>>, None))]_vars

\* C16 witness: traverse_nodes has descended two levels, scoring the children
\* of the root and then those of a node at depth 1, and the identity is the
\* bot's again
C16_Witness ==
    /\ pc = "traverse"
    /\ Len(node) = 2
    /\ current_identity = bot_identity
    /\ current_player(current_game) = bot_identity
    /\ Len(tree[root_node].child_keys) >= 2

---------------------------------------------------------------------------
(* C17: the child traverse_nodes descends to *)

\* The position of key k in the children mapping of node n
KeyIndex(n, k) ==
    CHOOSE i \in 1..Len(tree[n].child_keys) : tree[n].child_keys[i] = k

\* C17: at each step of traverse_nodes the child descended to has a ucb
\* greater than or equal to that of every sibling, and every sibling that
\* comes before it in the children mapping has a smaller ucb: it is the first
\* of the children of maximal ucb.
C17_DescendsToFirstMaximum ==
    [][(pc = "traverse" /\ pc' = "traverse") =>
        LET is_opponent == current_identity # bot_identity
            chosen      == node'[Len(node')]
        IN /\ node' = Child(node, chosen)
           /\ chosen \in SeqToSet(tree[node].child_keys)
           /\ \A k \in SeqToSet(tree[node].child_keys) :
                /\ ~Greater(ucb(tree, Child(node, k), is_opponent),
                            ucb(tree, node', is_opponent))
                /\ KeyIndex(node, k) < KeyIndex(node, chosen)
                      => Greater(ucb(tree, node', is_opponent),
                                 ucb(tree, Child(node, k), is_opponent))]_vars

\* C17 witness: traverse_nodes has descended to a child that a later sibling
\* equals in ucb and that an earlier sibling does not reach
C17_Witness ==
    /\ pc = "traverse"
    /\ node # root_node
    /\ LET parent      == Parent(node)
           is_opponent == Len(parent) % 2 = 1
           chosen      == node[Len(node)]
       IN /\ \E k \in SeqToSet(tree[parent].child_keys) :
                /\ KeyIndex(parent, k) > KeyIndex(parent, chosen)
                /\ ucb(tree, Child(parent, k), is_opponent)
                     = ucb(tree, node, is_opponent)
          /\ \E k \in SeqToSet(tree[parent].child_keys) :
                /\ KeyIndex(parent, k) < KeyIndex(parent, chosen)
                /\ Greater(ucb(tree, node, is_opponent),
                           ucb(tree, Child(parent, k), is_opponent))

---------------------------------------------------------------------------
(* C18: the statistics of a node and of its children *)

\* The sum of the visits of the children of n, from child number i on
RECURSIVE ChildrenVisits(_, _)
ChildrenVisits(n, i) ==
    IF i > Len(tree[n].child_keys) THEN 0
    ELSE tree[Child(n, tree[n].child_keys[i])].visits + ChildrenVisits(n, i + 1)

\* The sum of the wins of the children of n, from child number i on
RECURSIVE ChildrenWins(_, _)
ChildrenWins(n, i) ==
    IF i > Len(tree[n].child_keys) THEN 0
    ELSE tree[Child(n, tree[n].child_keys[i])].wins + ChildrenWins(n, i + 1)

\* No iteration of think is under way
BetweenIterations == pc \in {"loop", "done"}

\* What C18 says of visits and of nodes of ended states
VisitsAddUp(n) ==
    /\ ~is_ended(board, StateOf(current_state, n))
         => tree[n].visits = ChildrenVisits(n, 1)
                              + (IF n = root_node THEN 0 ELSE 1)
    /\ tree[n].visits >= ChildrenVisits(n, 1)
    /\ is_ended(board, StateOf(current_state, n)) => tree[n].child_keys = <<>>

\* C18 as stated: after every completed iteration every node of a non-ended
\* state has as many visits as its children together, plus 1 if it is not
\* the root; every node has at least the visits and at least the wins of its
\* children together; a node of an ended state has no children.
C18_StatsDominateChildren ==
    BetweenIterations =>
        \A n \in Nodes : VisitsAddUp(n) /\ tree[n].wins >= ChildrenWins(n, 1)

\* C18 amended: the same, except that the wins of the root, which
\* backpropagate never credits, are 0 whatever its children have won.
C18_StatsDominateChildrenBelowRoot ==
    BetweenIterations =>
        \A n \in Nodes :
            /\ VisitsAddUp(n)
            /\ n # root_node => tree[n].wins >= ChildrenWins(n, 1)
            /\ n = root_node => tree[n].wins = 0

\* C18 witness: after an iteration, a node below the root has won children
\* and more wins than they have together, a node of an ended state has been
\* visited twice, and the children of the root have wins
C18_Witness ==
    /\ pc = "loop"
    /\ \E n \in Nodes \ {root_node} :
            /\ ChildrenWins(n, 1) >= 1
            /\ tree[n].wins > ChildrenWins(n, 1)
    /\ \E n \in Nodes :
            /\ is_ended(board, StateOf(current_state, n))
            /\ tree[n].visits >= 2
    /\ ChildrenWins(root_node, 1) >= 1

---------------------------------------------------------------------------
(* C19: when think returns None *)

\* C19: when the root has a child, the first child get_best_action scans is
\* accepted as the initial best, and the result is not None and is a key of
\* the root's children, hence a legal action of the input state; think with
\* a budget of at least 1 returns None only when the input state is ended.
C19_NoneOnlyWhenEnded ==
    /\ (pc = "loop" /\ iter = num_nodes /\ scanned >= 1) => chosen_move # None
    /\ (pc = "loop" /\ iter = num_nodes /\ scanned = 1) =>
            chosen_move = RootKeys[1]
    /\ (pc = "done" /\ RootKeys # <<>>) =>
            /\ best_action # None
            /\ best_action \in SeqToSet(RootKeys)
            /\ best_action \in SeqToSet(legal_actions(board, current_state))
    /\ (pc = "done" /\ num_nodes >= 1 /\ best_action = None) =>
            is_ended(board, current_state)

\* C19 witness: think has returned the action of a child that is not the
\* first of several children of the root, the first of which has no win
C19_Witness ==
    /\ pc = "done"
    /\ num_nodes >= 1
    /\ Len(RootKeys) >= 2
    /\ best_action \in SeqToSet(RootKeys)
    /\ best_action # RootKeys[1]
    /\ tree[Child(root_node, RootKeys[1])].wins = 0
====
